---- MODULE Spec2Model ----
(***************************************************************************)
(* ultraqueue.c: a hybrid RAM + disk FIFO queue.  One process-wide ring    *)
(* buffer (ram_buffer, ram_start, ram_end) absorbs pushes; when it is full *)
(* its contents are appended to the file named by the caller (spill), and  *)
(* a pop that finds the ring empty reads the first line of the file and    *)
(* rewrites the file with the remaining lines.  One mutex (queue_lock)     *)
(* serialises ultraqueue_push, ultraqueue_pop and ultraqueue_len.          *)
(*                                                                         *)
(* Text is modelled as a sequence of characters.  A character is a number: *)
(* NL is the newline, and the item of the n-th push call consists of the   *)
(* character n repeated, so that every queued item is recognisable in RAM, *)
(* in a file and in a caller's output buffer.                              *)
(***************************************************************************)
EXTENDS Integers, Sequences, FiniteSets

\* ------------------------------------------------------------ constants
\* ultraqueue.c:25-26, scaled down (4096 and 10000 in the source).
MAX_LINE == 4
RAM_BUFFER_CAPACITY == 3

\* ------------------------------------------------------------ bounds
NThreads == 2
MaxPushes == 4
\* Push calls in the specifications where library calls fail.
MaxPushesIO == 3

Threads == 1 .. NThreads
NoThread == 0
Paths == {"A", "B"}
OnePath == {"A"}
OneThread == {1}
\* Lengths of the items pushed: one that fgets reads together with its
\* newline, and one beyond the line buffer of MAX_LINE - 1 characters.
ItemLens == {MAX_LINE - 2, MAX_LINE}
\* Sizes of the caller's output buffer: one that truncates every item to one
\* character, one that holds every item whole.
BufSizes == {2, MAX_LINE + 1}

NL == 0
NULL == <<-1>>
NoFile == <<-2>>

VARIABLES
    ram_buffer, ram_start, ram_end,   \* the ring buffer (static globals)
    disk,                             \* path -> contents of the file, or NoFile
    queue_lock,                       \* the thread holding the mutex, or NoThread
    pc,                               \* thread -> position in its call
    op, path, item, buf_size,         \* thread -> the call and its arguments
    res, spill_res, out_buf, found,   \* thread -> locals of the call
    temp,                             \* thread -> unread contents of tmpfile()
    io_err,                           \* thread -> the library call that failed in its call
    crash_pc,                         \* thread -> its position when the process died
    nextId,                           \* number of the next push call
    pushed,                           \* history: the pushes that returned 0, in order
    popped,                           \* history: what the pops that returned 0 returned
    popTried,                         \* history: some pop has run
    pre                               \* history: RAM and disk when the lock was taken

ram == <<ram_buffer, ram_start, ram_end>>
args == <<op, path, item, buf_size>>
locals == <<res, spill_res, out_buf, found, temp, io_err>>
hist == <<pushed, popped, popTried>>
vars == <<ram, disk, queue_lock, pc, args, locals, crash_pc, nextId, hist, pre>>

\* ------------------------------------------------------------ text helpers
Min(a, b) == IF a < b THEN a ELSE b

Take(s, n) == SubSeq(s, 1, Min(n, Len(s)))

Drop(s, n) == SubSeq(s, Min(n, Len(s)) + 1, Len(s))

Item(id, n) == [i \in 1 .. n |-> id]

RECURSIVE Concat(_)
Concat(ss) == IF ss = <<>> THEN <<>> ELSE Head(ss) \o Concat(Tail(ss))

\* strncpy(out_buf, src, buf_size - 1); out_buf[buf_size - 1] = '\0'
strncpy(src, size) == Take(src, size - 1)

\* if (len > 0 && out_buf[len - 1] == '\n') out_buf[len - 1] = '\0'
strip_newline(s) ==
    IF Len(s) > 0 /\ s[Len(s)] = NL THEN SubSeq(s, 1, Len(s) - 1) ELSE s

\* fgets(line, MAX_LINE, fp): at most MAX_LINE - 1 characters, stopping after
\* a newline.  The number of characters one call reads from s.
fgets_len(s) ==
    LET lim == Min(Len(s), MAX_LINE - 1)
        nls == {i \in 1 .. lim : s[i] = NL}
    IN  IF nls = {} THEN lim ELSE CHOOSE i \in nls : \A j \in nls : i <= j

fgets(s) == Take(s, fgets_len(s))

\* The lines a while (fgets(...)) loop sees when it reads s to its end; v is
\* the text that is left to read.
RECURSIVE fgets_all(_)
fgets_all(s) ==
    CHOOSE ls \in {IF v = <<>> THEN <<>>
                   ELSE <<fgets(v)>> \o fgets_all(Drop(v, fgets_len(v))) : v \in {s}} : TRUE

\* ------------------------------------------------------------ RAM tier
\* Mutant: the buffer counts as full one slot early.
is_ram_full_early(s, e) == ((e + 2) % RAM_BUFFER_CAPACITY) = s

is_ram_full(s, e) == ((e + 1) % RAM_BUFFER_CAPACITY) = s

\* Mutant: the buffer counts as empty unless it is full.
is_ram_empty_unless_full(s, e) == ~is_ram_full(s, e)

is_ram_empty(s, e) == s = e

\* The strings between ram_start and ram_end, oldest first.
RECURSIVE RamItems(_, _, _)
RamItems(buf, s, e) ==
    IF s = e THEN <<>>
    ELSE <<buf[s]>> \o RamItems(buf, (s + 1) % RAM_BUFFER_CAPACITY, e)

\* Mutant: push_ram stores the item without looking whether the buffer is full.
push_ram_overwrite(buf, s, e, it, alloc_ok) ==
    IF ~alloc_ok THEN [res |-> -2, buf |-> buf, e |-> e]
    ELSE [res |-> 0, buf |-> [buf EXCEPT ![e] = it],
          e |-> (e + 1) % RAM_BUFFER_CAPACITY]

\* push_ram: -1 when full, -2 when strdup fails, else stores a copy at ram_end.
push_ram(buf, s, e, it, alloc_ok) ==
    IF is_ram_full(s, e) THEN [res |-> -1, buf |-> buf, e |-> e]
    ELSE IF ~alloc_ok THEN [res |-> -2, buf |-> buf, e |-> e]
    ELSE [res |-> 0, buf |-> [buf EXCEPT ![e] = it],
          e |-> (e + 1) % RAM_BUFFER_CAPACITY]

\* pop_ram: -1 when empty, else copies the head into out_buf and frees it.
pop_ram(buf, s, e, size) ==
    IF is_ram_empty(s, e) THEN [res |-> -1, buf |-> buf, s |-> s, out |-> <<>>]
    ELSE [res |-> 0, buf |-> [buf EXCEPT ![s] = NULL],
          s |-> (s + 1) % RAM_BUFFER_CAPACITY, out |-> strncpy(buf[s], size)]

\* ------------------------------------------------------------ disk tier
\* free(ram_buffer[ram_start]); ram_buffer[ram_start] = NULL; ram_start++ (k times)
RECURSIVE FreeSlots(_, _, _)
FreeSlots(buf, s, k) ==
    IF k = 0 THEN buf
    ELSE FreeSlots([buf EXCEPT ![s] = NULL], (s + 1) % RAM_BUFFER_CAPACITY, k - 1)

\* The records fputs/fputc write for the items its, each ended by a newline.
RECURSIVE Lines(_)
Lines(its) ==
    IF its = <<>> THEN <<>> ELSE Head(its) \o <<NL>> \o Lines(Tail(its))

NoFault == [kind |-> "none", at |-> 0, wrote |-> 0]

\* The ways a spill of the items its can fail: fopen fails; fputs of the
\* at-th item fails after writing `wrote` of its characters (none of them, or
\* all but the last); fputc of the newline after the at-th item fails.
SpillFaults(its) ==
    {[kind |-> "open", at |-> 0, wrote |-> 0]}
    \cup UNION {{[kind |-> "fputs", at |-> k, wrote |-> j] :
                    j \in {0, Len(its[k]) - 1}} : k \in 1 .. Len(its)}
    \cup {[kind |-> "fputc", at |-> k, wrote |-> 0] : k \in 1 .. Len(its)}

\* Mutant: the spill leaves out the newline after each item.
spill_to_disk_no_newline(buf, s, e, file, f) ==
    [res |-> 0, buf |-> FreeSlots(buf, s, Len(RamItems(buf, s, e))), s |-> 0, e |-> 0,
     file |-> (IF file = NoFile THEN <<>> ELSE file) \o Concat(RamItems(buf, s, e))]

\* Mutant: the spill writes the newest item first.
spill_to_disk_newest_first(buf, s, e, file, f) ==
    LET its == RamItems(buf, s, e)
    IN  [res |-> 0, buf |-> FreeSlots(buf, s, Len(its)), s |-> 0, e |-> 0,
         file |-> (IF file = NoFile THEN <<>> ELSE file)
                    \o Lines([i \in 1 .. Len(its) |-> its[Len(its) + 1 - i]])]

\* spill_to_disk: append every RAM item as a line to the file, freeing each
\* slot after its line is written; reset the indices at the end.
spill_to_disk(buf, s, e, file, f) ==
    LET its == RamItems(buf, s, e)
        base == IF file = NoFile THEN <<>> ELSE file
        done == IF f.kind = "none" THEN Len(its) ELSE f.at - 1
        part == IF f.kind = "fputs" THEN Take(its[f.at], f.wrote)
                ELSE IF f.kind = "fputc" THEN its[f.at]
                ELSE <<>>
    IN  IF f.kind = "open"
        THEN [res |-> -1, buf |-> buf, s |-> s, e |-> e, file |-> file]
        ELSE IF f.kind = "none"
        THEN [res |-> 0, buf |-> FreeSlots(buf, s, done), s |-> 0, e |-> 0,
              file |-> base \o Lines(its)]
        ELSE [res |-> IF f.kind = "fputs" THEN -2 ELSE -3,
              buf |-> FreeSlots(buf, s, done),
              s |-> (s + done) % RAM_BUFFER_CAPACITY, e |-> e,
              file |-> base \o Lines(SubSeq(its, 1, done)) \o part]

\* The value of spill_res when spill_to_disk was not called.
NoSpill == 1

\* Mutant: the push is retried although the spill failed.
ultraqueue_push_retry(buf, s, e, file, it, f, alloc_ok) ==
    LET r1 == push_ram(buf, s, e, it, alloc_ok)
        sp == spill_to_disk(buf, s, e, file, f)
        r2 == push_ram(sp.buf, sp.s, sp.e, it, alloc_ok)
    IN  IF r1.res # -1
        THEN [res |-> r1.res, spill_res |-> NoSpill,
              buf |-> r1.buf, s |-> s, e |-> r1.e, file |-> file]
        ELSE [res |-> r2.res, spill_res |-> sp.res,
              buf |-> r2.buf, s |-> sp.s, e |-> r2.e, file |-> sp.file]

\* ultraqueue_push between LOCK_QUEUE and UNLOCK_QUEUE.
ultraqueue_push(buf, s, e, file, it, f, alloc_ok) ==
    LET r1 == push_ram(buf, s, e, it, alloc_ok)
    IN  IF r1.res # -1
        THEN [res |-> r1.res, spill_res |-> NoSpill,
              buf |-> r1.buf, s |-> s, e |-> r1.e, file |-> file]
        ELSE LET sp == spill_to_disk(buf, s, e, file, f)
                 r2 == push_ram(sp.buf, sp.s, sp.e, it, alloc_ok)
             IN  IF sp.res # 0
                 THEN [res |-> sp.res, spill_res |-> sp.res,
                       buf |-> sp.buf, s |-> sp.s, e |-> sp.e, file |-> sp.file]
                 ELSE [res |-> r2.res, spill_res |-> 0,
                       buf |-> r2.buf, s |-> sp.s, e |-> r2.e, file |-> sp.file]

\* The ways the read loop of a disk pop over the lines ls can fail: fgets
\* fails before the at-th line (the loop ends), or the fputs of the at-th
\* line to the temporary file fails (its result is not looked at).
ReadFaults(ls) ==
    {[kind |-> "fgets", at |-> k, wrote |-> 0] : k \in 1 .. Len(ls)}
    \cup {[kind |-> "fputs", at |-> k, wrote |-> 0] : k \in 2 .. Len(ls)}

\* The first loop of ultraqueue_pop: the first line goes to out_buf, the
\* other lines go to the temporary file.
pop_read(file, size, f) ==
    LET all == fgets_all(file)
        ls == IF f.kind = "fgets" THEN SubSeq(all, 1, f.at - 1) ELSE all
        kept == IF ls = <<>> THEN <<>>
                ELSE [i \in 1 .. Len(ls) - 1 |->
                        IF f.kind = "fputs" /\ f.at = i + 1 THEN <<>> ELSE ls[i + 1]]
    IN  [found |-> ls # <<>>,
         out |-> IF ls = <<>> THEN <<>> ELSE strip_newline(strncpy(ls[1], size)),
         temp |-> Concat(kept)]

\* The newline count of ultraqueue_len's fgetc loop.
count_newlines(file) ==
    IF file = NoFile THEN 0 ELSE Cardinality({i \in 1 .. Len(file) : file[i] = NL})

ultraqueue_len(s, e, file) ==
    ((e + RAM_BUFFER_CAPACITY - s) % RAM_BUFFER_CAPACITY) + count_newlines(file)

\* ------------------------------------------------------------ state
Snapshot == [ram |-> RamItems(ram_buffer, ram_start, ram_end), disk |-> disk]

NoPre == [ram |-> <<>>, disk |-> [p \in Paths |-> NoFile]]

Init ==
    /\ ram_buffer = [i \in 0 .. RAM_BUFFER_CAPACITY - 1 |-> NULL]
    /\ ram_start = 0
    /\ ram_end = 0
    /\ disk = [p \in Paths |-> NoFile]
    /\ queue_lock = NoThread
    /\ pc = [t \in Threads |-> "idle"]
    /\ op = [t \in Threads |-> "none"]
    /\ path = [t \in Threads |-> "A"]
    /\ item = [t \in Threads |-> <<>>]
    /\ buf_size = [t \in Threads |-> 0]
    /\ res = [t \in Threads |-> 0]
    /\ spill_res = [t \in Threads |-> NoSpill]
    /\ out_buf = [t \in Threads |-> <<>>]
    /\ found = [t \in Threads |-> FALSE]
    /\ temp = [t \in Threads |-> <<>>]
    /\ io_err = [t \in Threads |-> "none"]
    /\ crash_pc = [t \in Threads |-> "alive"]
    /\ nextId = 1
    /\ pushed = <<>>
    /\ popped = <<>>
    /\ popTried = FALSE
    /\ pre = NoPre

\* ------------------------------------------------------------ calls
\* A thread calls ultraqueue_push(p, item) with a fresh item of n characters;
\* at most max push calls are made.
CallPush(t, p, n, max) ==
    /\ pc[t] = "idle"
    /\ nextId <= max
    /\ pc' = [pc EXCEPT ![t] = "lock"]
    /\ op' = [op EXCEPT ![t] = "push"]
    /\ path' = [path EXCEPT ![t] = p]
    /\ item' = [item EXCEPT ![t] = Item(nextId, n)]
    /\ nextId' = nextId + 1
    /\ UNCHANGED <<ram, disk, queue_lock, buf_size, locals, crash_pc, hist, pre>>

\* A thread calls ultraqueue_pop(p, out_buf, size).
CallPop(t, p, size) ==
    /\ pc[t] = "idle"
    /\ pc' = [pc EXCEPT ![t] = "lock"]
    /\ op' = [op EXCEPT ![t] = "pop"]
    /\ path' = [path EXCEPT ![t] = p]
    /\ buf_size' = [buf_size EXCEPT ![t] = size]
    /\ UNCHANGED <<ram, disk, queue_lock, item, locals, crash_pc, nextId, hist, pre>>

\* A thread calls ultraqueue_len(p).
CallLen(t, p) ==
    /\ pc[t] = "idle"
    /\ pc' = [pc EXCEPT ![t] = "lock"]
    /\ op' = [op EXCEPT ![t] = "len"]
    /\ path' = [path EXCEPT ![t] = p]
    /\ UNCHANGED <<ram, disk, queue_lock, item, buf_size, locals, crash_pc, nextId,
                   hist, pre>>

\* Mutant: LOCK_QUEUE does not wait for the thread that holds the mutex.
LockNoWait(t) ==
    /\ pc[t] = "lock"
    /\ queue_lock' = t
    /\ pc' = [pc EXCEPT ![t] = op[t]]
    /\ pre' = Snapshot
    /\ popTried' = (popTried \/ op[t] = "pop")
    /\ UNCHANGED <<ram, disk, args, locals, crash_pc, nextId, pushed, popped>>

\* LOCK_QUEUE()
Lock(t) ==
    /\ pc[t] = "lock"
    /\ queue_lock = NoThread
    /\ queue_lock' = t
    /\ pc' = [pc EXCEPT ![t] = op[t]]
    /\ pre' = Snapshot
    /\ popTried' = (popTried \/ op[t] = "pop")
    /\ UNCHANGED <<ram, disk, args, locals, crash_pc, nextId, pushed, popped>>

\* Mutant: an error return leaves out UNLOCK_QUEUE.
UnlockOnSuccess(t) ==
    /\ pc[t] = "unlock"
    /\ queue_lock' = IF res[t] < 0 THEN queue_lock ELSE NoThread
    /\ pc' = [pc EXCEPT ![t] = "idle"]
    /\ op' = [op EXCEPT ![t] = "none"]
    /\ path' = [path EXCEPT ![t] = "A"]
    /\ item' = [item EXCEPT ![t] = <<>>]
    /\ buf_size' = [buf_size EXCEPT ![t] = 0]
    /\ res' = [res EXCEPT ![t] = 0]
    /\ spill_res' = [spill_res EXCEPT ![t] = NoSpill]
    /\ out_buf' = [out_buf EXCEPT ![t] = <<>>]
    /\ found' = [found EXCEPT ![t] = FALSE]
    /\ temp' = [temp EXCEPT ![t] = <<>>]
    /\ io_err' = [io_err EXCEPT ![t] = "none"]
    /\ pre' = NoPre
    /\ UNCHANGED <<ram, disk, crash_pc, nextId, hist>>

\* UNLOCK_QUEUE(); return res
Unlock(t) ==
    /\ pc[t] = "unlock"
    /\ queue_lock' = NoThread
    /\ pc' = [pc EXCEPT ![t] = "idle"]
    /\ op' = [op EXCEPT ![t] = "none"]
    /\ path' = [path EXCEPT ![t] = "A"]
    /\ item' = [item EXCEPT ![t] = <<>>]
    /\ buf_size' = [buf_size EXCEPT ![t] = 0]
    /\ res' = [res EXCEPT ![t] = 0]
    /\ spill_res' = [spill_res EXCEPT ![t] = NoSpill]
    /\ out_buf' = [out_buf EXCEPT ![t] = <<>>]
    /\ found' = [found EXCEPT ![t] = FALSE]
    /\ temp' = [temp EXCEPT ![t] = <<>>]
    /\ io_err' = [io_err EXCEPT ![t] = "none"]
    /\ pre' = NoPre
    /\ UNCHANGED <<ram, disk, crash_pc, nextId, hist>>

\* ------------------------------------------------------------ push
DoPush(t, f, alloc_ok) ==
    /\ pc[t] = "push"
    /\ LET r == ultraqueue_push(ram_buffer, ram_start, ram_end, disk[path[t]],
                                item[t], f, alloc_ok)
       IN  /\ ram_buffer' = r.buf
           /\ ram_start' = r.s
           /\ ram_end' = r.e
           /\ disk' = [disk EXCEPT ![path[t]] = r.file]
           /\ res' = [res EXCEPT ![t] = r.res]
           /\ spill_res' = [spill_res EXCEPT ![t] = r.spill_res]
           /\ pushed' = IF r.res = 0
                        THEN Append(pushed, [item |-> item[t], path |-> path[t]])
                        ELSE pushed
    /\ io_err' = [io_err EXCEPT ![t] =
                    IF ~alloc_ok THEN "strdup" ELSE IF f.kind = "open" THEN "fopen" ELSE f.kind]
    /\ pc' = [pc EXCEPT ![t] = "unlock"]
    /\ UNCHANGED <<queue_lock, args, out_buf, found, temp, crash_pc, nextId,
                   popped, popTried, pre>>

\* The body of ultraqueue_push when no call fails.
Push(t) ==
    /\ op[t] = "push"
    /\ DoPush(t, NoFault, TRUE)

\* The body of ultraqueue_push when RAM is full and spill_to_disk fails.
PushSpillFail(t) ==
    /\ is_ram_full(ram_start, ram_end)
    /\ \E f \in SpillFaults(RamItems(ram_buffer, ram_start, ram_end)) :
            DoPush(t, f, TRUE)

\* The body of ultraqueue_push when strdup returns NULL.
PushAllocFail(t) ==
    /\ op[t] = "push"
    /\ DoPush(t, NoFault, FALSE)

\* ------------------------------------------------------------ pop
\* UNLOCK_QUEUE is next, and then return r; out is what out_buf holds.
PopReturn(t, r, out) ==
    /\ res' = [res EXCEPT ![t] = r]
    /\ popped' = IF r = 0 THEN Append(popped, out) ELSE popped
    /\ pc' = [pc EXCEPT ![t] = "unlock"]

\* pop_ram succeeds: return 0.
PopRam(t) ==
    /\ pc[t] = "pop"
    /\ ~is_ram_empty(ram_start, ram_end)
    /\ LET r == pop_ram(ram_buffer, ram_start, ram_end, buf_size[t])
       IN  /\ ram_buffer' = r.buf
           /\ ram_start' = r.s
           /\ out_buf' = [out_buf EXCEPT ![t] = r.out]
           /\ PopReturn(t, 0, r.out)
    /\ UNCHANGED <<ram_end, disk, queue_lock, args, spill_res, found, temp, io_err,
                   crash_pc, nextId, pushed, popTried, pre>>

\* RAM is empty and the call named by err returns NULL: return r.
PopFail(t, r, err) ==
    /\ pc[t] = "pop"
    /\ is_ram_empty(ram_start, ram_end)
    /\ PopReturn(t, r, out_buf[t])
    /\ io_err' = [io_err EXCEPT ![t] = err]
    /\ UNCHANGED <<ram, disk, queue_lock, args, spill_res, out_buf, found, temp,
                   crash_pc, nextId, pushed, popTried, pre>>

\* There is no file at path: fopen(path, "r") returns NULL, return -1.
PopNoFile(t) ==
    /\ disk[path[t]] = NoFile
    /\ PopFail(t, -1, "none")

\* The file exists, and fopen(path, "r") fails all the same: return -1.
PopOpenFail(t) ==
    /\ disk[path[t]] # NoFile
    /\ PopFail(t, -1, "fopen")

\* tmpfile() returns NULL: return -2.
PopTmpFail(t) ==
    /\ disk[path[t]] # NoFile
    /\ PopFail(t, -2, "tmpfile")

DoPopRead(t, f) ==
    /\ pc[t] = "pop"
    /\ is_ram_empty(ram_start, ram_end)
    /\ disk[path[t]] # NoFile
    /\ LET r == pop_read(disk[path[t]], buf_size[t], f)
       IN  /\ found' = [found EXCEPT ![t] = r.found]
           /\ out_buf' = [out_buf EXCEPT ![t] = r.out]
           /\ temp' = [temp EXCEPT ![t] = r.temp]
    /\ io_err' = [io_err EXCEPT ![t] = f.kind]
    /\ pc' = [pc EXCEPT ![t] = "pop_reopen"]
    /\ UNCHANGED <<ram, disk, queue_lock, args, res, spill_res, crash_pc, nextId,
                   hist, pre>>

\* The first loop: the file is read to its end; fclose(fp).
PopRead(t) ==
    /\ op[t] = "pop"
    /\ DoPopRead(t, NoFault)

\* The first loop with a failing fgets or a failing fputs to the temporary file.
PopReadFail(t) ==
    /\ disk[path[t]] # NoFile
    /\ \E f \in ReadFaults(fgets_all(disk[path[t]])) : DoPopRead(t, f)

\* fp = fopen(path, "w"): the file is truncated; rewind(temp).
PopReopen(t) ==
    /\ pc[t] = "pop_reopen"
    /\ disk' = [disk EXCEPT ![path[t]] = <<>>]
    /\ pc' = [pc EXCEPT ![t] = "pop_copy"]
    /\ UNCHANGED <<ram, queue_lock, args, locals, crash_pc, nextId, hist, pre>>

\* fopen(path, "w") returns NULL: return -3.
PopReopenFail(t) ==
    /\ pc[t] = "pop_reopen"
    /\ PopReturn(t, -3, out_buf[t])
    /\ io_err' = [io_err EXCEPT ![t] = "fopen"]
    /\ UNCHANGED <<ram, disk, queue_lock, args, spill_res, out_buf, found, temp,
                   crash_pc, nextId, pushed, popTried, pre>>

\* One round of the second loop: fgets from temp, fputs to the file.
DoPopCopy(t, write_ok) ==
    /\ pc[t] = "pop_copy"
    /\ temp[t] # <<>>
    /\ disk' = [disk EXCEPT ![path[t]] =
                    IF write_ok THEN @ \o fgets(temp[t]) ELSE @]
    /\ temp' = [temp EXCEPT ![t] = Drop(@, fgets_len(@))]
    /\ io_err' = [io_err EXCEPT ![t] = IF write_ok THEN @ ELSE "fputs"]
    /\ UNCHANGED <<ram, queue_lock, pc, args, res, spill_res, out_buf, found,
                   crash_pc, nextId, hist, pre>>

PopCopy(t) ==
    /\ op[t] = "pop"
    /\ DoPopCopy(t, TRUE)

\* fputs(line, fp) fails; its result is not looked at.
PopCopyFail(t) ==
    /\ op[t] = "pop"
    /\ DoPopCopy(t, FALSE)

\* The second loop is over: fclose both; return found ? 0 : -4.
PopClose(t) ==
    /\ pc[t] = "pop_copy"
    /\ temp[t] = <<>>
    /\ PopReturn(t, IF found[t] THEN 0 ELSE -4, out_buf[t])
    /\ UNCHANGED <<ram, disk, queue_lock, args, spill_res, out_buf, found, temp,
                   io_err, crash_pc, nextId, pushed, popTried, pre>>

\* ------------------------------------------------------------ len
LenBody(t) ==
    /\ pc[t] = "len"
    /\ res' = [res EXCEPT ![t] = ultraqueue_len(ram_start, ram_end, disk[path[t]])]
    /\ pc' = [pc EXCEPT ![t] = "unlock"]
    /\ UNCHANGED <<ram, disk, queue_lock, args, spill_res, out_buf, found, temp,
                   io_err, crash_pc, nextId, hist, pre>>

\* The process dies; what is on disk stays.
Crash ==
    /\ \E t \in Threads : pc[t] # "dead"
    /\ crash_pc' = pc
    /\ pc' = [t \in Threads |-> "dead"]
    /\ UNCHANGED <<ram, disk, queue_lock, args, locals, nextId, hist, pre>>

\* ------------------------------------------------------------ specifications
Call(t, P, max) ==
    \/ \E p \in P, n \in ItemLens : CallPush(t, p, n, max)
    \/ \E p \in P, size \in BufSizes : CallPop(t, p, size)
    \/ \E p \in P : CallLen(t, p)

Run(t) ==
    \/ Lock(t)
    \/ Push(t)
    \/ PopRam(t)
    \/ PopNoFile(t)
    \/ PopRead(t)
    \/ PopReopen(t)
    \/ PopCopy(t)
    \/ PopClose(t)
    \/ LenBody(t)
    \/ Unlock(t)

Fail(t) ==
    \/ PushSpillFail(t)
    \/ PushAllocFail(t)
    \/ PopOpenFail(t)
    \/ PopTmpFail(t)
    \/ PopReadFail(t)
    \/ PopReopenFail(t)
    \/ PopCopyFail(t)

\* One thread, one queue (path); no call of the C library fails.
Next == \E t \in OneThread : Call(t, OnePath, MaxPushes) \/ Run(t)

Spec == Init /\ [][Next]_vars

\* Threads share one queue; no call of the C library fails.
NextThreads == \E t \in Threads : Call(t, OnePath, MaxPushes) \/ Run(t)

SpecThreads == Init /\ [][NextThreads]_vars

\* One thread, one queue; file and memory operations may fail.
NextIO == \E t \in OneThread : Call(t, OnePath, MaxPushesIO) \/ Run(t) \/ Fail(t)

SpecIO == Init /\ [][NextIO]_vars

\* As SpecIO, and the process may die at any point.
NextCrash ==
    \/ \E t \in OneThread : Call(t, OnePath, MaxPushesIO) \/ Run(t) \/ Fail(t)
    \/ Crash

SpecCrash == Init /\ [][NextCrash]_vars

\* One thread uses two queues (paths); no call of the C library fails.
NextPaths == \E t \in OneThread : Call(t, Paths, MaxPushes) \/ Run(t)

SpecPaths == Init /\ [][NextPaths]_vars

\* The calls of the threads that compete for the mutex: every item is
\* shorter than a line and every output buffer holds it whole.
CallShort(t) ==
    \/ CallPush(t, "A", MAX_LINE - 2, MaxPushesIO)
    \/ CallPop(t, "A", MAX_LINE + 1)
    \/ CallLen(t, "A")

\* Threads share one queue; file and memory operations may fail.
NextLock == \E t \in Threads : CallShort(t) \/ Run(t) \/ Fail(t)

SpecLock == Init /\ [][NextLock]_vars

\* As SpecLock with a fair scheduler: a thread that can take a step of its
\* call takes one (every file operation returns), and a thread waiting for
\* the mutex gets it if the mutex is free again and again.
SpecFair ==
    /\ SpecLock
    /\ \A t \in Threads : WF_vars(Run(t)) /\ SF_vars(Lock(t))

\* ------------------------------------------------------------ observations
\* A thread has finished the body of the call o and is about to unlock and return.
Returning(t, o) == pc[t] = "unlock" /\ op[t] = o

\* The newline-terminated records of a file, first to last.
RECURSIVE Records(_)
Records(file) ==
    IF file = NoFile \/ \A i \in 1 .. Len(file) : file[i] # NL THEN <<>>
    ELSE LET n == CHOOSE i \in 1 .. Len(file) :
                    file[i] = NL /\ \A j \in 1 .. i - 1 : file[j] # NL
         IN  <<SubSeq(file, 1, n - 1)>> \o Records(Drop(file, n))

\* The item it is somewhere in the RAM items or the files of snap.
Present(it, snap) ==
    \/ \E i \in 1 .. Len(snap.ram) : snap.ram[i] = it
    \/ \E p \in Paths : \E i \in 1 .. Len(snap.disk[p]) : snap.disk[p][i] = it[1]

\* The positions in `pushed` of the items still queued in snap.
Queued(snap) == {k \in 1 .. Len(pushed) : Present(pushed[k].item, snap)}

Oldest(snap) ==
    pushed[CHOOSE k \in Queued(snap) : \A j \in Queued(snap) : k <= j].item

PushedItems(lo, hi) == [i \in 1 .. (hi - lo + 1) |-> pushed[lo + i - 1].item]

IsSuffix(s, w) == Len(s) <= Len(w) /\ SubSeq(w, Len(w) - Len(s) + 1, Len(w)) = s

\* The thread is between LOCK_QUEUE and UNLOCK_QUEUE.
InCritical(t) == pc[t] \in {"push", "pop", "pop_reopen", "pop_copy", "len", "unlock"}

\* What a pop of thread t had to take when it got the mutex: the head of RAM,
\* or with RAM empty the first record of the file (<<>> when there is none).
NextItem(t) ==
    IF pre.ram # <<>> THEN Head(pre.ram)
    ELSE IF Records(pre.disk[path[t]]) # <<>> THEN Head(Records(pre.disk[path[t]]))
    ELSE <<>>

\* The number of slots of ram_buffer that hold a string.
Occupied == Cardinality({i \in DOMAIN ram_buffer : ram_buffer[i] # NULL})

\* The position in `pushed` of the item made of the character c.
PushIndex(c) == CHOOSE k \in 1 .. Len(pushed) : pushed[k].item[1] = c

\* The characters of the items in a file, first to last.
ItemChars(file) == IF file = NoFile THEN <<>> ELSE SelectSeq(file, LAMBDA c : c # NL)

\* ------------------------------------------------------------ claims
\* C1: every successful pop returns the oldest item still queued (cut to the
\* caller's buffer), also when older items are on disk and newer ones in RAM.
FifoAcrossTiers ==
    \A t \in Threads :
        (Returning(t, "pop") /\ res[t] = 0) =>
            /\ Queued(pre) # {}
            /\ out_buf[t] = Take(Oldest(pre), buf_size[t] - 1)

\* C2: whenever no call is in progress, RAM and disk together hold as many
\* items as were pushed minus the successful pops, no item was returned by
\* two pops, and every pushed item is still queued or was returned by a pop.
ConcurrentConservation ==
    queue_lock = NoThread =>
        /\ Len(RamItems(ram_buffer, ram_start, ram_end)) + Len(Records(disk["A"]))
              = Len(pushed) - Len(popped)
        /\ \A i, j \in 1 .. Len(popped) :
              (i # j /\ popped[i] # <<>> /\ popped[j] # <<>>) => popped[i][1] # popped[j][1]
        /\ \A k \in 1 .. Len(pushed) :
              \/ Present(pushed[k].item, Snapshot)
              \/ \E i \in 1 .. Len(popped) :
                    popped[i] # <<>> /\ popped[i][1] = pushed[k].item[1]

\* C3 as stated: after RAM_BUFFER_CAPACITY pushes and one more (no pops), the
\* first RAM_BUFFER_CAPACITY items are on disk in push order, RAM holds only
\* the newest item, and ultraqueue_len returns RAM_BUFFER_CAPACITY + 1.
SpillAtCapacity ==
    (Len(pushed) = RAM_BUFFER_CAPACITY + 1 /\ ~popTried) =>
        /\ disk["A"] = Lines(PushedItems(1, RAM_BUFFER_CAPACITY))
        /\ RamItems(ram_buffer, ram_start, ram_end)
              = <<pushed[RAM_BUFFER_CAPACITY + 1].item>>
        /\ \A t \in Threads :
              Returning(t, "len") => res[t] = RAM_BUFFER_CAPACITY + 1

\* C3 amended: after RAM_BUFFER_CAPACITY - 1 pushes and one more (no pops),
\* the first RAM_BUFFER_CAPACITY - 1 items are on disk in push order, RAM
\* holds only the newest item, and ultraqueue_len returns RAM_BUFFER_CAPACITY.
SpillAtUsableCapacity ==
    (Len(pushed) = RAM_BUFFER_CAPACITY /\ ~popTried) =>
        /\ disk["A"] = Lines(PushedItems(1, RAM_BUFFER_CAPACITY - 1))
        /\ RamItems(ram_buffer, ram_start, ram_end)
              = <<pushed[RAM_BUFFER_CAPACITY].item>>
        /\ \A t \in Threads :
              Returning(t, "len") => res[t] = RAM_BUFFER_CAPACITY

SpillAtUsableCapacityWitness ==
    /\ Len(pushed) = RAM_BUFFER_CAPACITY
    /\ ~popTried
    /\ \E t \in Threads : Returning(t, "len")

\* C4: a push whose spill failed returns the spill's error code, and its
\* item is neither in RAM nor in a file; RAM holds what the spill left there.
FailedSpillPush ==
    \A t \in Threads :
        (Returning(t, "push") /\ spill_res[t] \notin {0, NoSpill}) =>
            /\ res[t] = spill_res[t]
            /\ res[t] \in {-1, -2, -3}
            /\ ~Present(item[t], Snapshot)
            /\ \A k \in 1 .. Len(pushed) : pushed[k].item # item[t]
            /\ IsSuffix(RamItems(ram_buffer, ram_start, ram_end), pre.ram)

\* A spill failed after it had freed a slot: a second push_ram would succeed.
FailedSpillPushWitness ==
    \E t \in Threads :
        /\ Returning(t, "push")
        /\ spill_res[t] \in {-2, -3}
        /\ ~is_ram_full(ram_start, ram_end)

\* C5: a pop on an empty queue (nothing in RAM, no file or an empty file)
\* returns an "empty" result, and no pop in which a library call failed
\* returns one of the results an empty queue gives.
EmptyResults == {-1, -4}

EmptyQueueContract ==
    \A t \in Threads :
        Returning(t, "pop") =>
            /\ (pre.ram = <<>> /\ pre.disk[path[t]] \in {NoFile, <<>>}
                    /\ io_err[t] = "none") => res[t] \in EmptyResults
            /\ io_err[t] # "none" => res[t] \notin EmptyResults

\* C6: when the process dies between the end of the first loop of a disk pop
\* and the end of the second, the records after the first line of the
\* original file are the last records of the file on disk.
CrashSafeCompaction ==
    \A t \in Threads :
        (crash_pc[t] \in {"pop_reopen", "pop_copy"}
            /\ Records(pre.disk[path[t]]) # <<>>) =>
            IsSuffix(Tail(Records(pre.disk[path[t]])), Records(disk[path[t]]))

\* C7: a successful pop with RAM empty returns the first record of the file
\* (cut to the caller's buffer) and leaves exactly the other records, in order.
Compaction ==
    \A t \in Threads :
        (Returning(t, "pop") /\ res[t] = 0 /\ pre.ram = <<>>) =>
            LET recs == Records(pre.disk[path[t]])
            IN  /\ recs # <<>>
                /\ out_buf[t] = Take(recs[1], buf_size[t] - 1)
                /\ disk[path[t]] = Lines(Tail(recs))

\* C8: after fewer than RAM_BUFFER_CAPACITY pushes and no pop, no file
\* exists and ultraqueue_len returns the number of pushes.
CapacityInvariant ==
    (Len(pushed) < RAM_BUFFER_CAPACITY /\ ~popTried) =>
        /\ \A p \in Paths : disk[p] = NoFile
        /\ \A t \in Threads : Returning(t, "len") => res[t] = Len(pushed)

CapacityInvariantWitness ==
    /\ Len(pushed) = RAM_BUFFER_CAPACITY - 1
    /\ ~popTried
    /\ \E t \in Threads : Returning(t, "len") /\ res[t] = RAM_BUFFER_CAPACITY - 1

\* C9: ultraqueue_len returns the occupied RAM slots plus the records of the
\* file, changes neither RAM nor the file, and on one path without failures
\* its result is the successful pushes minus the successful pops.
LenContract ==
    \A t \in Threads :
        Returning(t, "len") =>
            /\ res[t] = Cardinality({i \in DOMAIN ram_buffer : ram_buffer[i] # NULL})
                            + Len(Records(disk[path[t]]))
            /\ Snapshot = pre
            /\ res[t] = Len(pushed) - Len(popped)

\* C10: an item pushed with one path is only spilled to that path's file,
\* only returned by a pop with that path, and only counted by a len with
\* that path.
Owner(c) == (CHOOSE r \in {pushed[k] : k \in 1 .. Len(pushed)} : r.item[1] = c).path

PathIsolation ==
    /\ \A p \in Paths : \A i \in 1 .. Len(disk[p]) :
          (disk[p] # NoFile /\ disk[p][i] # NL) => Owner(disk[p][i]) = p
    /\ \A t \in Threads :
          (Returning(t, "pop") /\ res[t] = 0 /\ out_buf[t] # <<>>) =>
              Owner(out_buf[t][1]) = path[t]
    /\ \A t \in Threads :
          Returning(t, "len") =>
              res[t] <= Cardinality({k \in 1 .. Len(pushed) : pushed[k].path = path[t]})

\* C11: a disk pop in which a library call failed never returns success.
NoSwallowedFailure ==
    \A t \in Threads :
        (Returning(t, "pop") /\ io_err[t] # "none") => res[t] # 0

\* C12: the threads between LOCK_QUEUE and UNLOCK_QUEUE (RAM mutation and all
\* the disk I/O of a call) are exactly the holder of the mutex, so at most
\* one thread is there, and RAM and the files only change in a step of it.
MutualExclusion ==
    /\ \A t \in Threads : InCritical(t) <=> queue_lock = t
    /\ \A t, u \in Threads : (InCritical(t) /\ InCritical(u)) => t = u

\* A thread waits for the mutex while another one is half way through the
\* rewrite of the file.
MutualExclusionWitness ==
    \E t, u \in Threads :
        /\ pc[t] = "pop_copy"
        /\ disk[path[t]] # pre.disk[path[t]]
        /\ pc[u] = "lock"

\* C13: a call that has returned does not hold the mutex, the thread that
\* releases the mutex holds it, and under a fair scheduler every thread that
\* calls push, pop or len gets the mutex and returns.
DeadlockFreedom ==
    /\ [](\A t \in Threads : pc[t] \in {"idle", "lock"} => queue_lock # t)
    /\ [](\A t \in Threads : pc[t] = "unlock" => queue_lock = t)
    /\ \A t \in Threads : (pc[t] = "lock") ~> (pc[t] = "idle")

\* A call returns an error while another thread waits for the mutex.
DeadlockFreedomWitness ==
    \E t, u \in Threads :
        /\ pc[t] = "unlock"
        /\ res[t] < 0
        /\ pc[u] = "lock"

\* C14: a pop of an item longer than buf_size - 1 characters, from RAM or
\* from the file, returns success with the first buf_size - 1 characters of
\* the item, and nothing of the item stays queued.
PopTruncation ==
    \A t \in Threads :
        (Returning(t, "pop") /\ NextItem(t) # <<>>
            /\ Len(NextItem(t)) > buf_size[t] - 1) =>
            /\ res[t] = 0
            /\ out_buf[t] = Take(NextItem(t), buf_size[t] - 1)
            /\ ~Present(NextItem(t), Snapshot)

\* C20: a successful pop with RAM empty removes exactly the first record of
\* the file, whatever its length: one record fewer, the others unchanged,
\* and no rest of the first record left as a record.
RecordGranularPop ==
    \A t \in Threads :
        (Returning(t, "pop") /\ res[t] = 0 /\ pre.ram = <<>>) =>
            /\ Len(Records(disk[path[t]])) = Len(Records(pre.disk[path[t]])) - 1
            /\ Records(disk[path[t]]) = Tail(Records(pre.disk[path[t]]))

\* C15: ram_start and ram_end stay inside the buffer; the buffer holds
\* (ram_end - ram_start) mod RAM_BUFFER_CAPACITY items, at most
\* RAM_BUFFER_CAPACITY - 1; the indices are equal exactly when it holds none
\* and is_ram_full exactly when it holds RAM_BUFFER_CAPACITY - 1; push_ram on
\* a full buffer returns -1 and changes nothing.
RingInvariant ==
    LET n == (ram_end - ram_start + RAM_BUFFER_CAPACITY) % RAM_BUFFER_CAPACITY
        r == push_ram(ram_buffer, ram_start, ram_end, <<1>>, TRUE)
    IN  /\ ram_start \in 0 .. RAM_BUFFER_CAPACITY - 1
        /\ ram_end \in 0 .. RAM_BUFFER_CAPACITY - 1
        /\ Occupied = n
        /\ \A k \in 0 .. n - 1 :
              ram_buffer[(ram_start + k) % RAM_BUFFER_CAPACITY] # NULL
        /\ n <= RAM_BUFFER_CAPACITY - 1
        /\ is_ram_empty(ram_start, ram_end) <=> Occupied = 0
        /\ is_ram_full(ram_start, ram_end) <=> Occupied = RAM_BUFFER_CAPACITY - 1
        /\ is_ram_full(ram_start, ram_end) =>
              (r.res = -1 /\ r.buf = ram_buffer /\ r.e = ram_end)
        /\ \A t \in Threads :
              (Returning(t, "push") /\ spill_res[t] = -1) =>
                  (res[t] = -1 /\ RamItems(ram_buffer, ram_start, ram_end) = pre.ram)

\* A push found the buffer full, could not spill it and left it full.
RingInvariantWitness ==
    \E t \in Threads :
        /\ Returning(t, "push")
        /\ res[t] = -1
        /\ is_ram_full(ram_start, ram_end)
        /\ Occupied = RAM_BUFFER_CAPACITY - 1

\* C16: a pop that finds RAM non-empty returns the head of RAM and leaves
\* the file as it is; a push that finds RAM not full leaves the file as it is.
TierFrame ==
    \A t \in Threads :
        /\ (Returning(t, "pop") /\ pre.ram # <<>>) =>
              /\ res[t] = 0
              /\ out_buf[t] = Take(Head(pre.ram), buf_size[t] - 1)
              /\ RamItems(ram_buffer, ram_start, ram_end) = Tail(pre.ram)
              /\ disk = pre.disk
        /\ (Returning(t, "push") /\ Len(pre.ram) # RAM_BUFFER_CAPACITY - 1) =>
              disk = pre.disk

\* A pop took the head of RAM while the file held records.
TierFrameWitness ==
    \E t \in Threads :
        /\ Returning(t, "pop")
        /\ pre.ram # <<>>
        /\ Records(pre.disk[path[t]]) # <<>>
        /\ res[t] = 0

\* C17: on one path without failures the items in the file and then the
\* items in RAM are in the order of their pushes, so every item in the file
\* was pushed before every item in RAM.
TierOrdering ==
    LET ramIds == [i \in 1 .. Len(RamItems(ram_buffer, ram_start, ram_end)) |->
                      RamItems(ram_buffer, ram_start, ram_end)[i][1]]
        all == ItemChars(disk["A"]) \o ramIds
    IN  /\ \A i, j \in 1 .. Len(all) :
              i < j => PushIndex(all[i]) <= PushIndex(all[j])
        /\ \A i, j \in 1 .. Len(ramIds) :
              i < j => PushIndex(ramIds[i]) < PushIndex(ramIds[j])
        /\ \A i \in 1 .. Len(ItemChars(disk["A"])), j \in 1 .. Len(ramIds) :
              PushIndex(ItemChars(disk["A"])[i]) < PushIndex(ramIds[j])

\* The file holds the items of a spill and RAM is full of newer items.
TierOrderingWitness ==
    /\ Len(Records(disk["A"])) >= RAM_BUFFER_CAPACITY - 1
    /\ is_ram_full(ram_start, ram_end)

\* C18: after a spill that failed part way, the file holds what it held
\* followed by a prefix of whole newline-terminated records of the RAM items,
\* and RAM holds exactly the other items.
PartialSpill ==
    \A t \in Threads :
        (Returning(t, "push") /\ spill_res[t] \in {-2, -3}) =>
            \E k \in 0 .. Len(pre.ram) :
                /\ disk[path[t]] =
                      (IF pre.disk[path[t]] = NoFile THEN <<>> ELSE pre.disk[path[t]])
                          \o Lines(SubSeq(pre.ram, 1, k))
                /\ RamItems(ram_buffer, ram_start, ram_end)
                      = SubSeq(pre.ram, k + 1, Len(pre.ram))

\* C19: a pop that returns a failure code leaves the items in RAM and the
\* records of the file as they were.
FailedPopFrame ==
    \A t \in Threads :
        (Returning(t, "pop") /\ res[t] # 0) =>
            /\ RamItems(ram_buffer, ram_start, ram_end) = pre.ram
            /\ Records(disk[path[t]]) = Records(pre.disk[path[t]])

====
